---- MODULE Spec2Model ----
(***************************************************************************)
(* A model of the Vectronix laser-rangefinder codec of src/vectronix.py    *)
(* and src/protocol.py: the command encoder (send_command,                 *)
(* build_basic_command), the frame reader (read_response) and the response *)
(* decoders (parse_range, parse_response, check_crc).                      *)
(*                                                                         *)
(* Bytes are the integers 0..255 and a bytes object is a sequence of them. *)
(* Python semantics are those of CPython 3.11.  The enumerations Command   *)
(* and RangingStatus mix in bytes, so a member is used as its bytes value. *)
(* (Their class statements list enum.Enum before bytes, which the enum     *)
(* module rejects when the class is created; the methods are modelled as   *)
(* they behave once the bases are in the accepted order.)                  *)
(***************************************************************************)
EXTENDS Integers, Sequences, FiniteSets, TLC

VARIABLES
    stream,     \* reader: the bytes the transport will deliver, in order
    pos,        \* reader: number of bytes of stream consumed so far
    pc,         \* reader: "idle" | "seeking" | "collecting" | "returned" | "raised"
    response,   \* reader: the local variable `response` of read_response
    rerror,     \* reader: the message of the ValueError raised ("" when none)
    startPos,   \* reader: value of pos when the current call began
    calls,      \* reader: number of read_response calls begun
    ending,     \* reader: what follows the stream, "timeout" | "ends"
    sent,       \* encoder: the send_command calls made, each with the buffer written
    packed,     \* encoder: the last build_basic_command call and its outcome
    frame,      \* decoder: the bytes handed to the decoder
    decoded,    \* decoder: the last decoder call and its outcome
    component   \* which of the independent components this run exercises

vars ==
    <<stream, pos, pc, response, rerror, startPos, calls, ending, sent, packed, frame,
      decoded, component>>
readerVars == <<stream, pos, pc, response, rerror, startPos, calls, ending>>
encoderVars == <<sent, packed>>
decoderVars == <<frame, decoded>>

---------------------------------------------------------------------------
(* Protocol constants.                                                     *)

RANGING_RESPONSE_LEN == 11
ACK == 62
NACK == 33
END == 13
COMMA == 44

\* ord(c) of the ASCII digit d, and of the letters used below
Digit(d) == 48 + d
IsDigit(b) == b >= 48 /\ b <= 57

\* Command (an Enum of bytes values)
GET_RANGE == <<77, 100, 49>>
SW_HW_INFO == <<73, 118, 49>>
SELF_TEST == <<84, 98, 49>>
LPCL_MODE == <<84, 108, 49>>
Command == {GET_RANGE, SW_HW_INFO, SELF_TEST, LPCL_MODE}

\* RangingStatus (an Enum of bytes values; bytes(0) is the empty bytes object)
VALID == <<118>>
ERROR == <<82>>
UNKNOWN == <<>>

\* LPCLMode (an IntEnum), DEACTIVATE = 0 .. LEVEL_6 = 6
LPCLMode == 0 .. 6

\* Python's None where an integer or a record is expected
None == 0 - 1

---------------------------------------------------------------------------
(* Python primitives on bytes and integers.                                *)

Min(a, b) == IF a < b THEN a ELSE b
Max(a, b) == IF a > b THEN a ELSE b

\* s[lo:hi] with Python's clamping and negative indices
PyIndex(s, i) == IF i < 0 THEN Max(Len(s) + i, 0) ELSE Min(i, Len(s))
PySlice(s, lo, hi) == SubSeq(s, PyIndex(s, lo) + 1, PyIndex(s, hi))

\* sum(data)
RECURSIVE Sum(_)
Sum(s) == IF s = <<>> THEN 0 ELSE Head(s) + Sum(Tail(s))

\* str(n).encode('ascii') for an int n >= 0
RECURSIVE DecStr(_)
DecStr(n) == IF n < 10 THEN <<Digit(n)>> ELSE DecStr(n \div 10) \o <<Digit(n % 10)>>

\* f"{n:02X}" for n in 0..255, as the code points of its two characters
HexDigit(d) == IF d < 10 THEN 48 + d ELSE 55 + d
Hex2(n) == <<HexDigit(n \div 16), HexDigit(n % 16)>>

\* bytes.decode('utf-8') of a two-byte slice succeeds on two ASCII bytes or on
\* one well-formed two-byte sequence; .decode('ascii') succeeds on ASCII only
IsAscii(s) == \A i \in 1 .. Len(s) : s[i] < 128
Utf8Ok(s) ==
    \/ IsAscii(s)
    \/ Len(s) = 2 /\ s[1] >= 194 /\ s[1] <= 223 /\ s[2] >= 128 /\ s[2] <= 191

---------------------------------------------------------------------------
(* The transport and the frame reader: VectronixRangeFinder.read_response. *)

MaxStray == 3      \* most leading END bytes of a stream
MaxCalls == 2      \* most read_response calls on one transport
MaxTail == 2       \* END bytes counted behind the stream before pos stops counting

\* The responses protocol.py's check_responses decodes:
\* b'v0108750DB\r', b'R000E301BB\r', b'v1234550DA\r', b'v0222200CE\r'
StrongestReturn == <<118, 48, 49, 48, 56, 55, 53, 48, 68, 66, 13>>
SecondStrongestReturn == <<82, 48, 48, 48, 69, 51, 48, 49, 66, 66, 13>>
TestFrames ==
    { StrongestReturn, SecondStrongestReturn,
      <<118, 49, 50, 51, 52, 53, 53, 48, 68, 65, 13>>,
      <<118, 48, 50, 50, 50, 50, 48, 48, 67, 69, 13>> }

\* k END bytes
Stray(k) == [i \in 1 .. k |-> END]

\* What the device may send: stray END bytes, then nothing, ACK, NACK or a
\* noise byte ('x'), then a response (whole, without its status byte, or cut
\* short by a timeout; b'0108750A3\r' carries the checksum of b'>0108750'),
\* then the start of a further exchange.  Behind these bytes the transport
\* either times out on every read or delivers END bytes without end.
StreamHeads == { <<>>, <<ACK>>, <<NACK>>, <<120>> }
StreamBodies ==
    {<<>>, <<48, 49, 48, 56, 55, 53, 48, 65, 51, 13>>} \cup TestFrames
           \cup { PySlice(f, 1, 11) : f \in TestFrames }
           \cup { PySlice(f, 0, 3) : f \in TestFrames }
StreamTails == { <<>>, <<NACK>>, <<ACK>> \o PySlice(StrongestReturn, 1, 11) }
Streams ==
    { Stray(k) \o h \o b \o t :
        k \in 0 .. MaxStray, h \in StreamHeads, b \in StreamBodies, t \in StreamTails }

\* The i-th byte the transport delivers (i >= 1), END behind the stream
ByteAt(i) == IF i <= Len(stream) THEN stream[i] ELSE END

\* pos counts the consumed bytes up to PosCap; the END bytes discarded behind
\* it are not told apart
PosCap == Len(stream) + (RANGING_RESPONSE_LEN - 1) + MaxTail

\* self._read(n): the next n bytes of the transport, or as many as arrive
\* before its timeout (serial.Serial(timeout=1).read)
Read(n) ==
    IF ending = "ends"
    THEN [k \in 1 .. n |-> ByteAt(pos + k)]
    ELSE SubSeq(stream, pos + 1, Min(pos + n, Len(stream)))

\* SeekOutcome without the NACK test of line 48
SeekOutcomeNoNack(r) ==
    IF r = <<END>> THEN [pc |-> "seeking", rerror |-> ""]
    ELSE IF r = <<ACK>> THEN [pc |-> "collecting", rerror |-> ""]
    ELSE [pc |-> "returned", rerror |-> ""]

\* SeekOutcome with an empty read (a timeout) treated like END: read again
SeekOutcomeAwaits(r) ==
    IF r = <<END>> \/ r = <<>> THEN [pc |-> "seeking", rerror |-> ""]
    ELSE IF r = <<NACK>> THEN [pc |-> "raised", rerror |-> "Invalid command"]
    ELSE IF r = <<ACK>> THEN [pc |-> "collecting", rerror |-> ""]
    ELSE [pc |-> "returned", rerror |-> ""]

\* Lines 46-55 after `response = self._read(1)`: where control goes next
SeekOutcome(r) ==
    IF r = <<END>> THEN [pc |-> "seeking", rerror |-> ""]
    ELSE IF r = <<NACK>> THEN [pc |-> "raised", rerror |-> "Invalid command"]
    ELSE IF r = <<ACK>> THEN [pc |-> "collecting", rerror |-> ""]
    ELSE [pc |-> "returned", rerror |-> ""]

\* CollectOutcome with the length test only
CollectOutcomeAnyEnd(r) ==
    IF Len(r) # 11
    THEN [pc |-> "raised", rerror |-> "Invalid response format"]
    ELSE [pc |-> "returned", rerror |-> ""]

\* Lines 52-55 after `response += self._read(RANGING_RESPONSE_LEN - 1)`
CollectOutcome(r) ==
    IF Len(r) # 11 \/ r[Len(r)] # 13
    THEN [pc |-> "raised", rerror |-> "Invalid response format"]
    ELSE [pc |-> "returned", rerror |-> ""]

ReaderInit ==
    /\ stream \in Streams
    /\ pos = 0
    /\ pc = "idle"
    /\ response = <<>>
    /\ rerror = ""
    /\ startPos = 0
    /\ calls = 0
    /\ ending \in {"timeout", "ends"}

ReaderIdle ==
    /\ stream = <<>>
    /\ pos = 0
    /\ pc = "idle"
    /\ response = <<>>
    /\ rerror = ""
    /\ startPos = 0
    /\ calls = 0
    /\ ending = "timeout"

\* A caller enters read_response
CallRead ==
    /\ component = "reader"
    /\ pc \in {"idle", "returned", "raised"}
    /\ calls < MaxCalls
    /\ pc' = "seeking"
    /\ response' = <<>>
    /\ rerror' = ""
    /\ startPos' = pos
    /\ calls' = calls + 1
    /\ UNCHANGED <<stream, pos, ending, encoderVars, decoderVars, component>>

\* One turn of the while loop: read a byte and dispatch on it
ReadOne ==
    /\ pc = "seeking"
    /\ LET r == Read(1)
           o == SeekOutcome(r)
       IN /\ pos' = Min(pos + Len(r), PosCap)
          /\ response' = r
          /\ pc' = o.pc
          /\ rerror' = o.rerror
    /\ UNCHANGED <<stream, startPos, calls, ending, encoderVars, decoderVars, component>>

\* Collect with the ACK dropped: the response is the eleven bytes behind it
CollectDropsAck ==
    /\ pc = "collecting"
    /\ LET r == Read(RANGING_RESPONSE_LEN)
           o == CollectOutcome(r)
       IN /\ pos' = pos + Len(r)
          /\ response' = r
          /\ pc' = o.pc
          /\ rerror' = o.rerror
    /\ UNCHANGED <<stream, startPos, calls, ending, encoderVars, decoderVars, component>>

\* After ACK: read the other ten bytes and validate the shape
Collect ==
    /\ pc = "collecting"
    /\ LET r == Read(RANGING_RESPONSE_LEN - 1)
           o == CollectOutcome(response \o r)
       IN /\ pos' = pos + Len(r)
          /\ response' = response \o r
          /\ pc' = o.pc
          /\ rerror' = o.rerror
    /\ UNCHANGED <<stream, startPos, calls, ending, encoderVars, decoderVars, component>>

---------------------------------------------------------------------------
(* The command encoders: VectronixRangeFinder.send_command and             *)
(* CommandBuilder.build_basic_command.  The two live in separate programs  *)
(* (vectronix.py, protocol.py), so a run uses one or the other.            *)

MaxWrites == 2     \* most send_command calls recorded
MaxNumber == 10    \* largest `number` given to build_basic_command

\* bool(lpcl_mode): None and the IntEnum member 0 are falsy
Truthy(m) == m # None /\ m # 0

\* Line 39: COMMA + str(lpcl_mode).encode('ascii') if lpcl_mode else b""
Opcode(lpcl_mode) ==
    IF Truthy(lpcl_mode) THEN <<COMMA>> \o DecStr(lpcl_mode) ELSE <<>>

\* SendBuffer with the terminator left off
SendBufferNoEnd(command, lpcl_mode) ==
    <<ACK>> \o command \o Opcode(lpcl_mode)

\* Line 40: buffer = ACK + command + opcode + END
SendBuffer(command, lpcl_mode) ==
    <<ACK>> \o command \o Opcode(lpcl_mode) \o <<END>>

\* struct's "2s": the bytes cut or NUL-padded to two
Pack2s(b) == [i \in 1 .. 2 |-> IF i <= Len(b) THEN b[i] ELSE 0]

\* build_basic_command: struct's "c" takes a bytes object of length 1 only
BuildBasic(uppercase, lowercase, number) ==
    IF number # None
    THEN IF Len(DecStr(number)) # 1
         THEN [kind |-> "raise", value |-> <<>>, error |-> "struct.error"]
         ELSE [kind |-> "return",
               value |-> <<62>> \o Pack2s(uppercase \o lowercase)
                               \o DecStr(number) \o <<13>>,
               error |-> ""]
    ELSE [kind |-> "return",
          value |-> <<62>> \o Pack2s(uppercase \o lowercase) \o <<13>>,
          error |-> ""]

\* The arguments build_basic_command is tried on: 'M', 'A', 'Mx' / 'd', 'b', ''
Uppercases == { <<77>>, <<65>>, <<77, 120>> }
Lowercases == { <<100>>, <<98>>, <<>> }
Numbers == {None} \cup (0 .. MaxNumber)

NoPacked ==
    [uppercase |-> <<>>, lowercase |-> <<>>, number |-> None,
     kind |-> "none", value |-> <<>>, error |-> ""]

EncoderInit ==
    /\ sent = <<>>
    /\ packed = NoPacked

\* send_command(command, lpcl_mode): self._write(buffer)
SendCommand ==
    /\ component = "encoder"
    /\ packed = NoPacked
    /\ Len(sent) < MaxWrites
    /\ \E command \in Command, lpcl_mode \in {None} \cup LPCLMode :
          sent' = Append(sent, [command |-> command, lpcl_mode |-> lpcl_mode,
                                buffer |-> SendBuffer(command, lpcl_mode)])
    /\ UNCHANGED <<packed, readerVars, decoderVars, component>>

\* build_basic_command(uppercase, lowercase, number)
BuildBasicCommand ==
    /\ component = "encoder"
    /\ sent = <<>>
    /\ \E uppercase \in Uppercases, lowercase \in Lowercases, number \in Numbers :
          LET o == BuildBasic(uppercase, lowercase, number)
          IN packed' = [uppercase |-> uppercase, lowercase |-> lowercase,
                        number |-> number, kind |-> o.kind, value |-> o.value,
                        error |-> o.error]
    /\ UNCHANGED <<sent, readerVars, decoderVars, component>>

---------------------------------------------------------------------------
(* The response decoders: VectronixRangeFinder.parse_range / check_crc and *)
(* DistanceMeasurement.parse_response / check_crc.                         *)

MaxRange == 12     \* largest range (in centimetres) among the generated frames

\* Python values: None, a float num / den, a bytes object, a bool
PyNone == [tag |-> "None", num |-> 0, den |-> 1, bytes |-> <<>>]
PyFloat(n, d) == [tag |-> "float", num |-> n, den |-> d, bytes |-> <<>>]
PyBytes(b) == [tag |-> "bytes", num |-> 0, den |-> 1, bytes |-> b]
PyBool(b) == [tag |-> "bool", num |-> IF b THEN 1 ELSE 0, den |-> 1, bytes |-> <<>>]

\* bool(v) for the values `or` is applied to
PyTruthy(v) ==
    CASE v.tag = "None" -> FALSE
      [] v.tag = "float" -> v.num # 0
      [] v.tag = "bytes" -> v.bytes # <<>>
      [] OTHER -> v.num # 0

\* a or b
PyOr(a, b) == IF PyTruthy(a) THEN a ELSE b

\* int(text): surrounding whitespace is stripped, one sign is allowed, and
\* single underscores may separate digits
IsSpace(b) == b \in {9, 10, 11, 12, 13, 28, 29, 30, 31, 32}
RECURSIVE LStrip(_)
LStrip(s) == IF s # <<>> /\ IsSpace(Head(s)) THEN LStrip(Tail(s)) ELSE s
RECURSIVE RStrip(_)
RStrip(s) ==
    IF s # <<>> /\ IsSpace(s[Len(s)]) THEN RStrip(SubSeq(s, 1, Len(s) - 1)) ELSE s
IntBodyOk(b) ==
    /\ b # <<>>
    /\ \A i \in 1 .. Len(b) :
          \/ IsDigit(b[i])
          \/ /\ b[i] = 95
             /\ i > 1 /\ i < Len(b)
             /\ IsDigit(b[i - 1]) /\ IsDigit(b[i + 1])
RECURSIVE IntValue(_)
IntValue(b) ==
    IF b = <<>> THEN 0
    ELSE IF b[Len(b)] = 95 THEN IntValue(SubSeq(b, 1, Len(b) - 1))
    ELSE 10 * IntValue(SubSeq(b, 1, Len(b) - 1)) + (b[Len(b)] - 48)
PyInt(s) ==
    LET t == RStrip(LStrip(s))
        signed == t # <<>> /\ t[1] \in {43, 45}
        body == IF signed THEN Tail(t) ELSE t
    IN IF IntBodyOk(body)
       THEN [ok |-> TRUE,
             val |-> IF signed /\ t[1] = 45 THEN 0 - IntValue(body) ELSE IntValue(body)]
       ELSE [ok |-> FALSE, val |-> 0]

\* RangeOf without the division by 100
RangeOfUnscaled(measured_range) ==
    IF ~IsAscii(measured_range)
    THEN [kind |-> "raise", exc |-> "UnicodeDecodeError", value |-> PyNone]
    ELSE IF ~PyInt(measured_range).ok
    THEN [kind |-> "raise", exc |-> "ValueError: invalid literal", value |-> PyNone]
    ELSE [kind |-> "return", exc |-> "",
          value |-> PyFloat(PyInt(measured_range).val, 1)]

\* int(measured_range.decode('ascii')) / 100
RangeOf(measured_range) ==
    IF ~IsAscii(measured_range)
    THEN [kind |-> "raise", exc |-> "UnicodeDecodeError", value |-> PyNone]
    ELSE IF ~PyInt(measured_range).ok
    THEN [kind |-> "raise", exc |-> "ValueError: invalid literal", value |-> PyNone]
    ELSE [kind |-> "return", exc |-> "",
          value |-> PyFloat(PyInt(measured_range).val, 100)]

\* check_crc's working: data = response[:8], crc_received = response[-3:-1],
\* crc_calculated = f"{sum(data) & 0xFF:02X}"
CrcReceived(r) == PySlice(r, 0 - 3, 0 - 1)
\* CrcCalculated with the format spec 02x in place of 02X
CrcCalculatedLower(r) ==
    LET n == Sum(PySlice(r, 0, 8)) % 256
        lower(d) == IF d < 10 THEN 48 + d ELSE 87 + d
    IN <<lower(n \div 16), lower(n % 16)>>
CrcCalculated(r) == Hex2(Sum(PySlice(r, 0, 8)) % 256)
CrcEqual(r) == IsAscii(CrcReceived(r)) /\ CrcReceived(r) = CrcCalculated(r)

\* VectronixRangeFinder.check_crc: returns None or raises
CheckCrcOf(r) ==
    IF ~Utf8Ok(CrcReceived(r))
    THEN [kind |-> "raise", exc |-> "UnicodeDecodeError", value |-> PyNone]
    ELSE IF ~CrcEqual(r)
    THEN [kind |-> "raise", exc |-> "ValueError: Invalid CRC", value |-> PyNone]
    ELSE [kind |-> "return", exc |-> "", value |-> PyNone]

\* DistanceMeasurement.check_crc: returns the comparison
CheckCrcBoolOf(r) ==
    IF ~Utf8Ok(CrcReceived(r))
    THEN [kind |-> "raise", exc |-> "UnicodeDecodeError", value |-> PyNone]
    ELSE [kind |-> "return", exc |-> "", value |-> PyBool(CrcEqual(r))]

\* Line 78: status == RangingStatus.ERROR or RangingStatus.UNKNOWN
StatusExpr(status) == IF status = ERROR THEN "True" ELSE "RangingStatus.UNKNOWN"

\* Line 63: the dict that `response` names from there on
Dict63 == [range |-> PyNone, status |-> "None", error |-> PyNone]

\* Lines 76-80: the dict display evaluates 'range', 'status', then
\* response[4:8], where `response` is by now Dict63: a dict subscripted with
\* a slice raises TypeError (unhashable type: 'slice')
ElseBranch(status, r) ==
    [kind |-> "raise", exc |-> "TypeError", value |-> Dict63]

\* VectronixRangeFinder.parse_range(response)
ParseRangeOf(r) ==
    LET status == PySlice(r, 0, 1)
        measured_range == PySlice(r, 1, 8)
        crc == CheckCrcOf(r)
        rng == RangeOf(measured_range)
    IN IF crc.kind = "raise"
       THEN [kind |-> "raise", exc |-> crc.exc, value |-> Dict63]
       ELSE IF status = VALID
       THEN IF rng.kind = "raise"
            THEN [kind |-> "raise", exc |-> rng.exc, value |-> Dict63]
            ELSE [kind |-> "return", exc |-> "",
                  value |-> [range |-> rng.value, status |-> "RangingStatus.VALID",
                             error |-> PyNone]]
       ELSE ElseBranch(status, r)

\* Line 119: measured_range_value or error_code
MeasuredRange(measured_range_value, error_code) ==
    PyOr(measured_range_value, error_code)

NoParsed == [Status |-> "", MeasuredRange |-> PyNone, Checksum |-> PyNone]

\* DistanceMeasurement.parse_response(response)
ParseResponseOf(r) ==
    LET status == PySlice(r, 0, 1)
        measured_range == PySlice(r, 1, 8)
        rng == RangeOf(measured_range)
        crc == CheckCrcBoolOf(r)
        range_status ==
            IF status = <<118>> THEN "Valid"
            ELSE IF status = <<82>> THEN "Error" ELSE "Unknown"
        measured_range_value == IF status = <<118>> THEN rng.value ELSE PyNone
        error_code == IF status = <<118>> THEN PyNone ELSE PyBytes(PySlice(r, 4, 8))
    IN IF Len(r) # 11 \/ r[Len(r)] # 13
       THEN [kind |-> "raise", exc |-> "ValueError: Invalid response format",
             value |-> NoParsed]
       ELSE IF status = <<118>> /\ rng.kind = "raise"
       THEN [kind |-> "raise", exc |-> rng.exc, value |-> NoParsed]
       ELSE IF crc.kind = "raise"
       THEN [kind |-> "raise", exc |-> crc.exc, value |-> NoParsed]
       ELSE [kind |-> "return", exc |-> "",
             value |-> [Status |-> range_status,
                        MeasuredRange |-> MeasuredRange(measured_range_value, error_code),
                        Checksum |-> crc.value]]

\* The frames the decoders are tried on: a status byte ('v', 'R', '>', 'x'),
\* seven payload bytes, two checksum bytes (right, right but lowercase, off by
\* one, "00"), and an ending (END, 'x', nothing, END END)
Pow10(k) == IF k = 0 THEN 1 ELSE IF k = 1 THEN 10 ELSE IF k = 2 THEN 100
            ELSE IF k = 3 THEN 1000 ELSE IF k = 4 THEN 10000
            ELSE IF k = 5 THEN 100000 ELSE 1000000
Pad7(n) == [i \in 1 .. 7 |-> Digit((n \div Pow10(7 - i)) % 10)]
ToLower(s) == [i \in 1 .. Len(s) |-> IF s[i] >= 65 /\ s[i] <= 70 THEN s[i] + 32 ELSE s[i]]
DecoderStatuses == { 118, 82, 62, 120 }
DecoderPayloads ==
    { Pad7(n) : n \in 0 .. MaxRange }
    \cup { PySlice(f, 1, 8) : f \in TestFrames }
    \cup { <<57, 57, 57, 57, 57, 57, 57>>,       \* 9999999
           <<43, 48, 48, 48, 48, 49, 50>>,       \* +000012
           <<45, 48, 48, 48, 48, 49, 50>>,       \* -000012
           <<32, 48, 48, 48, 48, 49, 50>>,       \* " 000012"
           <<49, 95, 50, 51, 52, 53, 54>>,       \* 1_23456
           <<49, 50, 97, 52, 53, 54, 55>> }      \* 12a4567
DecoderChecksums(prefix) ==
    { Hex2(Sum(prefix) % 256), ToLower(Hex2(Sum(prefix) % 256)),
      Hex2((Sum(prefix) + 1) % 256), <<48, 48>> }
DecoderEndings == { <<END>>, <<120>>, <<>>, <<END, END>> }
FramesOf(st, p) ==
    { (<<st>> \o p) \o c \o e : c \in DecoderChecksums(<<st>> \o p), e \in DecoderEndings }
\* Frames whose first eight bytes are arbitrary bytes, with sums 0, 10, 255
\* (twice), 256 and 2040
CrcPrefixes ==
    { <<0, 0, 0, 0, 0, 0, 0, 0>>, <<10, 0, 0, 0, 0, 0, 0, 0>>,
      <<255, 0, 0, 0, 0, 0, 0, 0>>, <<128, 127, 0, 0, 0, 0, 0, 0>>,
      <<255, 1, 0, 0, 0, 0, 0, 0>>,
      <<255, 255, 255, 255, 255, 255, 255, 255>> }
CrcFrames ==
    UNION { { p \o c \o <<END>> : c \in DecoderChecksums(p) \cup { <<70, 70>>, <<48, 65>> } }
            : p \in CrcPrefixes }
DecoderFrames ==
    TestFrames \cup CrcFrames
        \cup UNION { FramesOf(st, p) : st \in DecoderStatuses, p \in DecoderPayloads }

NoDecoded == [op |-> "none", kind |-> "none", exc |-> "", value |-> PyNone]

DecoderInit ==
    /\ frame \in DecoderFrames
    /\ decoded = NoDecoded

DecoderIdle ==
    /\ frame = <<>>
    /\ decoded = NoDecoded

\* VectronixRangeFinder.parse_range(frame)
ParseRange ==
    /\ component = "decoder"
    /\ LET o == ParseRangeOf(frame)
       IN decoded' = [op |-> "parse_range", kind |-> o.kind, exc |-> o.exc,
                      value |-> o.value]
    /\ UNCHANGED <<frame, readerVars, encoderVars, component>>

\* parse_range(read_response()): the reader's return value handed to
\* VectronixRangeFinder.parse_range
ParseReturned ==
    /\ component = "reader"
    /\ pc = "returned"
    /\ frame' = response
    /\ LET o == ParseRangeOf(response)
       IN decoded' = [op |-> "parse_range", kind |-> o.kind, exc |-> o.exc,
                      value |-> o.value]
    /\ UNCHANGED <<readerVars, encoderVars, component>>

\* DistanceMeasurement.parse_response(frame)
ParseResponse ==
    /\ component = "decoder"
    /\ LET o == ParseResponseOf(frame)
       IN decoded' = [op |-> "parse_response", kind |-> o.kind, exc |-> o.exc,
                      value |-> o.value]
    /\ UNCHANGED <<frame, readerVars, encoderVars, component>>

\* VectronixRangeFinder.check_crc(frame)
CheckCrc ==
    /\ component = "decoder"
    /\ LET o == CheckCrcOf(frame)
       IN decoded' = [op |-> "check_crc", kind |-> o.kind, exc |-> o.exc,
                      value |-> o.value]
    /\ UNCHANGED <<frame, readerVars, encoderVars, component>>

\* DistanceMeasurement.check_crc(frame)
CheckCrcBool ==
    /\ component = "decoder"
    /\ LET o == CheckCrcBoolOf(frame)
       IN decoded' = [op |-> "check_crc_bool", kind |-> o.kind, exc |-> o.exc,
                      value |-> o.value]
    /\ UNCHANGED <<frame, readerVars, encoderVars, component>>

---------------------------------------------------------------------------
(* The specification.  Encoder, reader and decoder share no mutable state, *)
(* so a behaviour exercises one of them.                                   *)

Init ==
    \/ component = "reader" /\ ReaderInit /\ EncoderInit /\ DecoderIdle
    \/ component = "encoder" /\ ReaderIdle /\ EncoderInit /\ DecoderIdle
    \/ component = "decoder" /\ ReaderIdle /\ EncoderInit /\ DecoderInit

Next ==
    \/ CallRead
    \/ ReadOne
    \/ Collect
    \/ ParseReturned
    \/ SendCommand
    \/ BuildBasicCommand
    \/ ParseRange
    \/ ParseResponse
    \/ CheckCrc
    \/ CheckCrcBool

Spec == Init /\ [][Next]_vars

\* read_response is a sequential loop over blocking reads that each return
\* within the transport's timeout, so a call that has begun keeps stepping
FairSpec == Spec /\ WF_vars(ReadOne) /\ WF_vars(Collect)

---------------------------------------------------------------------------
(* Claims about the frame reader.                                          *)

Terminal == pc \in {"returned", "raised"}

\* Index of the first byte after position `from` that is not END; 0 if none
FirstNonEnd(s, from) ==
    LET idx == { i \in (from + 1) .. Len(s) : s[i] # END }
    IN IF idx = {} THEN 0 ELSE CHOOSE i \in idx : \A j \in idx : i <= j

\* A well-formed ranging response: status 'v', seven decimal digits, the two
\* checksum characters of the first eight bytes, END
IsRangingResponse(f) ==
    /\ Len(f) = 11
    /\ f[1] = 118
    /\ \A i \in 2 .. 8 : IsDigit(f[i])
    /\ <<f[9], f[10]>> = Hex2(Sum(SubSeq(f, 1, 8)) % 256)
    /\ f[11] = END

\* C1: when the stream is k stray END bytes, ACK and a well-formed ranging
\* response, the first read_response call returns that 11-byte response.
C1_ResyncReturnsFrame ==
    \A k \in 0 .. MaxStray :
        ( /\ calls = 1
          /\ Terminal
          /\ Len(stream) >= k + 12
          /\ SubSeq(stream, 1, k + 1) = Stray(k) \o <<ACK>>
          /\ IsRangingResponse(SubSeq(stream, k + 2, k + 12)) )
        => (pc = "returned" /\ response = SubSeq(stream, k + 2, k + 12))

\* C2: read_response never returns a value that was not started by an ACK
\* byte; a stray byte is never handed back as the response.
C2_ReturnStartsWithAck ==
    (pc = "returned" /\ response # <<>>) => response[1] = ACK

\* C3: whatever read_response returns is exactly 11 bytes long and ends in
\* END, and a frame assembled after ACK in any other shape ends in
\* "Invalid response format" (MalformedFrame).
C3_ReturnedShape ==
    /\ pc = "returned" => (Len(response) = 11 /\ response[11] = END)
    /\ ( /\ Terminal
         /\ response # <<>>
         /\ response[1] = ACK
         /\ ~(Len(response) = 11 /\ response[11] = END) )
          => (pc = "raised" /\ rerror = "Invalid response format")

\* C4: when the first byte of a call that is not END is NACK, the call reads
\* up to that NACK and no further, and ends by raising "Invalid command"
\* (CommandRejected) without a return value.
C4_NackRejects ==
    LET i == FirstNonEnd(stream, startPos)
    IN (calls >= 1 /\ i # 0 /\ stream[i] = NACK)
          => /\ pos <= i
             /\ pc \in {"seeking", "raised"}
             /\ pc = "raised" => (rerror = "Invalid command" /\ pos = i)
             /\ pos = i => pc = "raised"

\* C4 witness: a call rejected after skipping stray END bytes, with bytes
\* left unread behind the NACK
C4_Witness ==
    /\ pc = "raised"
    /\ rerror = "Invalid command"
    /\ pos > startPos + 1
    /\ pos < Len(stream)
    /\ stream[pos] = NACK

---------------------------------------------------------------------------
(* Claims about the command encoders.                                      *)

\* The frame re-split: START and END stripped, then cut at the first comma
CommaAt(b) ==
    LET idx == { i \in 1 .. Len(b) : b[i] = COMMA }
    IN IF idx = {} THEN 0 ELSE CHOOSE i \in idx : \A j \in idx : i <= j
ReSplit(buffer) ==
    LET body == PySlice(buffer, 1, 0 - 1)
        c == CommaAt(body)
    IN [start |-> PySlice(buffer, 0, 1),
        end |-> PySlice(buffer, 0 - 1, Len(buffer)),
        mnemonic |-> IF c = 0 THEN body ELSE SubSeq(body, 1, c - 1),
        hasParam |-> c # 0,
        digits |-> IF c = 0 THEN <<>> ELSE SubSeq(body, c + 1, Len(body))]

\* C5: send_command(LPCL_MODE, level) writes '>' 'T' 'l' '1' ',' digit END
\* for every level 0..6, and the comma and digit are left out only when no
\* level is given.
C5_LpclModeFrame ==
    \A i \in 1 .. Len(sent) :
        /\ (sent[i].command = LPCL_MODE /\ sent[i].lpcl_mode \in LPCLMode)
              => sent[i].buffer = <<62, 84, 108, 49, 44, 48 + sent[i].lpcl_mode, 13>>
        /\ (sent[i].command = LPCL_MODE /\ Len(sent[i].buffer) = 5)
              => sent[i].lpcl_mode = None

\* C6: a command sent without a parameter is written as the five bytes START,
\* mnemonic, END; GET_RANGE is written as '>' 'M' 'd' '1' CR, and
\* build_basic_command('M', 'd', 1) returns the same five bytes.
C6_BareCommandFrame ==
    /\ \A i \in 1 .. Len(sent) :
          sent[i].lpcl_mode = None
             => /\ Len(sent[i].buffer) = 5
                /\ sent[i].buffer[1] = 62
                /\ SubSeq(sent[i].buffer, 2, 4) = sent[i].command
                /\ sent[i].buffer[5] = 13
                /\ sent[i].command = GET_RANGE
                      => sent[i].buffer = <<62, 77, 100, 49, 13>>
    /\ ( /\ packed.kind # "none"
         /\ packed.uppercase = <<77>>
         /\ packed.lowercase = <<100>>
         /\ packed.number = 1 )
          => (packed.kind = "return" /\ packed.value = <<62, 77, 100, 49, 13>>)

\* C6 witness: GET_RANGE was sent without a parameter after another bare command
C6_Witness ==
    /\ Len(sent) = 2
    /\ sent[1].lpcl_mode = None
    /\ sent[2].command = GET_RANGE
    /\ sent[2].lpcl_mode = None

\* C7: re-splitting a written frame gives back the mnemonic and the parameter
\* digits of the call, and two calls with different (command, parameter)
\* never write the same frame.
C7_EncodeRoundTrip ==
    /\ \A i \in 1 .. Len(sent) :
          LET rs == ReSplit(sent[i].buffer)
          IN /\ rs.start = <<ACK>>
             /\ rs.end = <<END>>
             /\ rs.mnemonic = sent[i].command
             /\ rs.hasParam = (sent[i].lpcl_mode # None)
             /\ sent[i].lpcl_mode # None => rs.digits = DecStr(sent[i].lpcl_mode)
    /\ \A i, j \in 1 .. Len(sent) :
          (sent[i].command # sent[j].command \/ sent[i].lpcl_mode # sent[j].lpcl_mode)
             => sent[i].buffer # sent[j].buffer

---------------------------------------------------------------------------
(* Claims about the response decoders.                                     *)

\* An 11-byte END-terminated frame with the given status byte whose checksum
\* characters are those of its first eight bytes
IsChecked(f, st) ==
    /\ Len(f) = 11
    /\ f[1] = st
    /\ <<f[9], f[10]>> = Hex2(Sum(SubSeq(f, 1, 8)) % 256)
    /\ f[11] = END

\* The seven digits at offsets 1..7 read as one decimal number
SevenDigits(f) ==
    1000000 * (f[2] - 48) + 100000 * (f[3] - 48) + 10000 * (f[4] - 48)
        + 1000 * (f[5] - 48) + 100 * (f[6] - 48) + 10 * (f[7] - 48) + (f[8] - 48)

C9_ErrorFrameDecodes ==
    /\ (decoded.op = "parse_range" /\ IsChecked(frame, 82))
          => /\ decoded.kind = "return"
             /\ decoded.value.status \in {"RangingStatus.ERROR", "True"}
             /\ decoded.value.range = PyNone
             /\ decoded.value.error = PyBytes(SubSeq(frame, 5, 8))
    /\ (decoded.op = "parse_response" /\ IsChecked(frame, 82))
          => /\ decoded.kind = "return"
             /\ decoded.value.Status = "Error"
             /\ decoded.value.MeasuredRange = PyBytes(SubSeq(frame, 5, 8))
             /\ decoded.value.Checksum = PyBool(TRUE)

\* C10: in every result a decoder returns, the range is there exactly when
\* the status is Valid and the error payload exactly when it is Error or
\* Unknown.
C10_ExactlyOnePopulated ==
    /\ (decoded.op = "parse_range" /\ decoded.kind = "return")
          => /\ decoded.value.range.tag = "float"
                   <=> decoded.value.status = "RangingStatus.VALID"
             /\ decoded.value.error.tag = "bytes"
                   <=> decoded.value.status # "RangingStatus.VALID"
    /\ (decoded.op = "parse_response" /\ decoded.kind = "return")
          => /\ decoded.value.MeasuredRange.tag = "float"
                   <=> decoded.value.Status = "Valid"
             /\ decoded.value.MeasuredRange.tag = "bytes"
                   <=> decoded.value.Status \in {"Error", "Unknown"}

\* The two characters of n in 0..255 written in hexadecimal with the digits
\* 0-9A-F
HexChars == <<48, 49, 50, 51, 52, 53, 54, 55, 56, 57, 65, 66, 67, 68, 69, 70>>
TwoHex(n) == <<HexChars[(n \div 16) + 1], HexChars[(n % 16) + 1]>>

\* An 11-byte END-terminated frame whose checksum characters are not the
\* uppercase rendering of the sum of its first eight bytes
IsTampered(f) ==
    /\ Len(f) = 11
    /\ f[11] = END
    /\ <<f[9], f[10]>> # TwoHex(Sum(SubSeq(f, 1, 8)) % 256)

\* C11: decoding a frame with tampered checksum characters reports the
\* mismatch, never a valid checksum, and still hands the decoded fields
\* (status, range or error payload) to the caller.
C11_TamperedChecksum ==
    /\ (decoded.op = "check_crc" /\ IsTampered(frame))
          => (decoded.kind = "raise" /\ decoded.exc = "ValueError: Invalid CRC")
    /\ (decoded.op = "check_crc_bool" /\ IsTampered(frame))
          => (decoded.kind = "return" /\ decoded.value = PyBool(FALSE))
    /\ (decoded.op = "parse_range" /\ IsTampered(frame))
          => /\ decoded.exc = "ValueError: Invalid CRC"
             /\ decoded.value.status # "None"
             /\ decoded.value.range # PyNone \/ decoded.value.error # PyNone

\* C12: a byte sequence that is not 11 bytes long or does not end in END is
\* never decoded into a result: parse_response fails with "Invalid response
\* format" (MalformedFrame) and parse_range returns nothing either.
C12_MisshapenFrameFails ==
    LET misshapen == Len(frame) # 11 \/ frame[Len(frame)] # END
    IN /\ (decoded.op = "parse_response" /\ misshapen)
             => /\ decoded.kind = "raise"
                /\ decoded.exc = "ValueError: Invalid response format"
       /\ (decoded.op = "parse_range" /\ misshapen) => decoded.kind = "raise"

\* C13: a 'v' frame whose range field holds a byte that is not a decimal
\* digit is not decoded into a range (with right checksum characters the
\* decoder fails on the payload), and no range a decoder returns is negative.
C13_NonDigitRangeFails ==
    LET nondigit ==
            /\ Len(frame) = 11
            /\ frame[11] = END
            /\ frame[1] = 118
            /\ \E i \in 2 .. 8 : ~IsDigit(frame[i])
    IN /\ (decoded.op = "parse_range" /\ nondigit /\ ~IsTampered(frame))
             => /\ decoded.kind = "raise"
                /\ decoded.exc \in {"ValueError: invalid literal", "UnicodeDecodeError"}
       /\ (decoded.op = "parse_response" /\ nondigit)
             => /\ decoded.kind = "raise"
                /\ decoded.exc \in {"ValueError: invalid literal", "UnicodeDecodeError"}
       /\ (decoded.op = "parse_range" /\ decoded.kind = "return")
             => decoded.value.range.num >= 0

\* C14: the calculated checksum is the sum of the first eight bytes modulo
\* 256 written as exactly two characters from 0-9A-F: check_crc accepts a
\* frame exactly when its checksum characters are that rendering.
C14_ChecksumRendering ==
    LET expected == TwoHex(Sum(SubSeq(frame, 1, 8)) % 256)
        received == <<frame[9], frame[10]>>
    IN /\ (decoded.op = "check_crc_bool" /\ Len(frame) = 11)
             => /\ decoded.kind = "return"
                /\ decoded.value = PyBool(received = expected)
       /\ (decoded.op = "check_crc" /\ Len(frame) = 11)
             => (decoded.kind = "return" <=> received = expected)

\* C14 witness: a prefix summing to 256 was accepted with the characters "00"
C14_Witness ==
    /\ decoded.op = "check_crc_bool"
    /\ decoded.value = PyBool(TRUE)
    /\ Len(frame) = 11
    /\ Sum(SubSeq(frame, 1, 8)) = 256
    /\ <<frame[9], frame[10]>> = <<48, 48>>

\* C16: for a checksum-valid 11-byte frame the decoder reports Valid exactly
\* for status byte 'v', Error exactly for 'R' and Unknown for any other
\* byte, with the bytes at offset 4..8 as the error payload for Error and
\* Unknown alike.
C16_StatusClassification ==
    LET checked == Len(frame) = 11 /\ IsChecked(frame, frame[1])
        digits == \A i \in 2 .. 8 : IsDigit(frame[i])
    IN /\ (decoded.op = "parse_response" /\ checked /\ (frame[1] = 118 => digits))
             => /\ decoded.kind = "return"
                /\ decoded.value.Status =
                      (IF frame[1] = 118 THEN "Valid"
                       ELSE IF frame[1] = 82 THEN "Error" ELSE "Unknown")
                /\ frame[1] # 118
                      => decoded.value.MeasuredRange = PyBytes(SubSeq(frame, 5, 8))
       /\ (decoded.op = "parse_range" /\ checked /\ (frame[1] = 118 => digits))
             => /\ decoded.kind = "return"
                /\ decoded.value.status =
                      (IF frame[1] = 118 THEN "RangingStatus.VALID"
                       ELSE IF frame[1] = 82 THEN "RangingStatus.ERROR"
                       ELSE "RangingStatus.UNKNOWN")
                /\ frame[1] # 118
                      => decoded.value.error = PyBytes(SubSeq(frame, 5, 8))

---------------------------------------------------------------------------
(* Further claims about the frame reader: timeouts, consumption,           *)
(* termination and alignment.                                              *)

\* C15: when the transport delivers fewer bytes than asked for (nothing
\* while seeking, fewer than ten while collecting), read_response ends by
\* raising; it never returns the empty or short bytes as a response.
C15_ShortReadFails ==
    ( /\ Terminal
      /\ \/ response = <<>>
         \/ response[1] = ACK /\ Len(response) < 11 )
       => pc = "raised"

\* C17: a call that has ended has consumed exactly the leading END bytes and
\* one more byte when the first byte that is not END is not ACK, and the
\* leading END bytes and eleven more bytes when it is ACK.
C17_ExactConsumption ==
    LET i == FirstNonEnd(stream, startPos)
    IN (Terminal /\ i # 0)
          => pos = (IF stream[i] = ACK THEN i + 10 ELSE i)

\* C18: every 11-byte frame read_response returns starts with ACK, and
\* parse_range applied to what read_response returned never yields a
\* result (so never status Valid with a range): it raises.
C18_ReturnedFrameNeverValid ==
    /\ (pc = "returned" /\ Len(response) = 11) => response[1] = ACK
    /\ (component = "reader" /\ decoded.op = "parse_range")
          => decoded.kind = "raise"

\* C18 witness: a returned frame whose checksum holds is decoded and fails at
\* the status test
C18_Witness ==
    /\ component = "reader"
    /\ pc = "returned"
    /\ decoded.op = "parse_range"
    /\ frame = response
    /\ Len(frame) = 11
    /\ decoded.exc = "TypeError"

\* The transport delivers nothing but END from the current position on
EndsForever ==
    /\ ending = "ends"
    /\ \A i \in (pos + 1) .. Len(stream) : stream[i] = END

\* C19: a seeking call leaves the loop at the first read result that is not
\* a single END byte (for ACK through the one further read), it stays in the
\* loop for as long as END bytes arrive, and every call ends unless the
\* transport delivers END bytes for ever, in which case it never ends.
C19_Termination ==
    /\ [][ /\ (pc = "seeking" /\ Read(1) = <<END>>) => pc' = "seeking"
           /\ (pc = "seeking" /\ Read(1) = <<ACK>>) => pc' = "collecting"
           /\ (pc = "seeking" /\ Read(1) \notin {<<END>>, <<ACK>>}) => Terminal'
           /\ pc = "collecting" => Terminal'
           /\ (pc = "seeking" /\ EndsForever) => EndsForever' ]_vars
    /\ (pc = "seeking" /\ ~EndsForever) ~> Terminal

\* C19 witness: a call still seeking after discarding END bytes delivered
\* behind the stream
C19_Witness ==
    /\ ending = "ends"
    /\ pc = "seeking"
    /\ calls = 1
    /\ pos > Len(stream) + 1

====
